---------------------------- MODULE Spec2Model ----------------------------
(***************************************************************************)
(* The chunk storage subsystem of ferrumc (src/database/chunks.rs): the    *)
(* facade operations get_chunk, insert_chunk, update_chunk, chunk_exists   *)
(* and batch_insert over an LMDB table ("chunks", through heed) fronted by *)
(* a shared in-memory cache.  Every facade call is an async task; each     *)
(* await point of its body is one action of the model, so that calls of    *)
(* several tasks, the blocking store transactions and the cache's own      *)
(* evictions interleave as they can on the multi-threaded runtime.         *)
(***************************************************************************)
EXTENDS Integers, Sequences, FiniteSets, TLC

(***************************************************************************)
(* Bounds of the model.                                                    *)
(***************************************************************************)
\* Facade calls started in one behaviour.
MaxOps == 3
\* Longest vector handed to batch_insert.
MaxBatch == 2
\* Injected failures (store error, failed put or commit, failed dispatch).
MaxFaults == 1

\* The tasks calling the facade concurrently.
Procs == {1, 2}

(***************************************************************************)
(* Data: chunks and their identifying triples.                             *)
(***************************************************************************)
\* Bytes of the dimension identifiers (UTF-8).
DimBytes ==
    [overworld |-> <<111, 118, 101, 114, 119, 111, 114, 108, 100>>,
     nether    |-> <<110, 101, 116, 104, 101, 114>>]

DimNames == DOMAIN DimBytes

\* The (dimension, x, z) triples the readers look up: the two differ only in
\* the order of their coordinates.
Triples == {<<"overworld", 0, 1>>, <<"overworld", 1, 0>>}

\* The position the writers write; the other triple is never written.
WrittenTriples == {<<"overworld", 0, 1>>}

Payloads == {1, 2}

\* Chunk: dimension is an Option<String> (<<>> is None, <<d>> is Some(d)).
Chunk(d, x, z, pl) == [dimension |-> <<d>>, x_pos |-> x, z_pos |-> z, payload |-> pl]

Chunks == {Chunk(t[1], t[2], t[3], pl) : t \in WrittenTriples, pl \in Payloads}

\* The vectors handed to batch_insert.
Batches == UNION {[1..n -> Chunks] : n \in 0..MaxBatch}

(***************************************************************************)
(* Key derivation: hash over the fields of the tuple, in the tuple's order *)
(***************************************************************************)
HashMod == 2^16

\* Little-endian bytes of an i32 (two's complement).
I32Bytes(n) ==
    LET m == IF n >= 0 THEN n ELSE -n - 1
        b == <<m % 256, (m \div 256) % 256, (m \div 65536) % 256, (m \div 16777216) % 256>>
    IN  IF n >= 0 THEN b ELSE [i \in 1..4 |-> 255 - b[i]]

\* A string is fed as its bytes and a terminator, as Hash for str does.
StrBytes(d) == DimBytes[d] \o <<255>>

RECURSIVE FoldBytes(_, _)
FoldBytes(h, bytes) ==
    IF bytes = <<>> THEN h
    ELSE FoldBytes((h * 31 + Head(bytes)) % HashMod, Tail(bytes))

\* hash((a, b, c)) for a tuple of one string and two i32, fields in order.
hash(fields) == FoldBytes(7, fields[1] \o fields[2] \o fields[3])

(***************************************************************************)
(* Codec: bincode (standard configuration) then bzip.                      *)
(***************************************************************************)
ZigZag(n) == IF n >= 0 THEN 2 * n ELSE -2 * n - 1
UnZigZag(u) == IF u % 2 = 0 THEN u \div 2 ELSE -((u + 1) \div 2)

\* encode_to_vec(chunk, standard()): Option tag, length-prefixed string,
\* zigzag varints (single byte below 251), payload.
encode_to_vec(c) ==
    (IF c.dimension = <<>> THEN <<0>>
     ELSE <<1, Len(DimBytes[c.dimension[1]])>> \o DimBytes[c.dimension[1]])
    \o <<ZigZag(c.x_pos), ZigZag(c.z_pos), c.payload>>

SubSeqFrom(s, i) == SubSeq(s, i, Len(s))

\* decode_from_slice: <<chunk>> on success, <<>> on malformed input.
decode_from_slice(b) ==
    IF Len(b) < 1 THEN <<>>
    ELSE IF b[1] = 0 THEN
        IF Len(b) < 4 THEN <<>>
        ELSE <<[dimension |-> <<>>, x_pos |-> UnZigZag(b[2]),
                z_pos |-> UnZigZag(b[3]), payload |-> b[4]]>>
    ELSE IF b[1] # 1 \/ Len(b) < 2 \/ Len(b) < 2 + b[2] + 3 THEN <<>>
    ELSE LET n    == b[2]
             name == SubSeq(b, 3, 2 + n)
             rest == SubSeqFrom(b, 3 + n)
         IN  IF \E d \in DimNames : DimBytes[d] = name
             THEN <<[dimension |-> <<CHOOSE d \in DimNames : DimBytes[d] = name>>,
                     x_pos |-> UnZigZag(rest[1]), z_pos |-> UnZigZag(rest[2]),
                     payload |-> rest[3]]>>
             ELSE <<>>

\* bzip stream: the "BZh" magic, then the block.
BzMagic == <<66, 90, 104>>
bzip_compress(b) == BzMagic \o b
bzip_decompress(b) ==
    IF Len(b) >= 3 /\ SubSeq(b, 1, 3) = BzMagic THEN <<SubSeqFrom(b, 4)>> ELSE <<>>

\* BincodeBzip::bytes_encode
bytes_encode(item) == bzip_compress(encode_to_vec(item))

\* A decoding that would deserialize the stored bytes as they are.
DecodeWithoutDecompress(bytes) == decode_from_slice(bytes)

\* BincodeBzip::bytes_decode: <<item>>, or <<>> for an error.
bytes_decode(bytes) ==
    LET decompressed == bzip_decompress(bytes)
    IN  IF decompressed = <<>> THEN <<>> ELSE decode_from_slice(decompressed[1])

(***************************************************************************)
(* Keys at the call sites.                                                 *)
(***************************************************************************)
\* hash((dimension, x, z)) of get_chunk and chunk_exists.
LookupKeyOf(t) == hash(<<StrBytes(t[1]), I32Bytes(t[2]), I32Bytes(t[3])>>)

\* A cache key of the writers that would leave the dimension out.
CacheKeyWithoutDimension(c) == hash(<<<<>>, I32Bytes(c.x_pos), I32Bytes(c.z_pos)>>)

\* hash((value.dimension.as_ref().unwrap(), value.x_pos, value.z_pos)) of
\* insert_chunk, update_chunk and batch_insert: the cache key.
CacheKeyOf(c) == hash(<<StrBytes(c.dimension[1]), I32Bytes(c.x_pos), I32Bytes(c.z_pos)>>)

\* hash((chunk.dimension.as_ref().unwrap(), chunk.x_pos, chunk.z_pos)) of the
\* two store helpers: the table key.
StoreKeyOf(c) == hash(<<StrBytes(c.dimension[1]), I32Bytes(c.x_pos), I32Bytes(c.z_pos)>>)

\* The same, tabulated over the inputs of the model.
LookupKeys == [t \in Triples |-> LookupKeyOf(t)]
CacheKeys == [c \in Chunks |-> CacheKeyOf(c)]
StoreKeys == [c \in Chunks |-> StoreKeyOf(c)]
LookupKey(t) == LookupKeys[t]
CacheKey(c) == CacheKeys[c]
StoreKey(c) == StoreKeys[c]

\* The codec, tabulated over the chunks of the model and their encodings.
Encoded == [c \in Chunks |-> bytes_encode(c)]
Decoded == [b \in {bytes_encode(c) : c \in Chunks} |-> bytes_decode(b)]

Keys == {LookupKey(t) : t \in Triples}

(***************************************************************************)
(* State.                                                                  *)
(***************************************************************************)
VARIABLES
    store,    \* table "chunks" as committed: key -> <<bytes>>, or <<>>
    wtx,      \* the write transaction: its owner (0: none) and staged puts
    cache,    \* the cache: key -> <<chunk>>, or <<>>
    pc,       \* where each task stands in its facade call
    op,       \* the facade operation each task runs, or ran last
    key,      \* the key the call derived (the current one, in batch_insert)
    val,      \* the chunks handed to the call
    idx,      \* batch_insert: the position in values
    tmp,      \* the chunk a store lookup returned, before it is cached
    res,      \* the result of the call
    nOps,     \* calls started
    faults,   \* failures injected
    expect,   \* history: per key, what the last undisturbed call settled
    burst,    \* history: per key, the writes running side by side
    note      \* history: per task, what its call found settled when it began

vars == <<store, wtx, cache, pc, op, key, val, idx, tmp, res, nOps, faults,
          expect, burst, note>>

NoRes == [tag |-> "None", v |-> <<>>]
Ok(v) == [tag |-> "Ok", v |-> v]
Err(why) == [tag |-> "Err", v |-> <<why>>]
Panic(why) == [tag |-> "Panic", v |-> <<why>>]

\* The caller dropped the future of the call: nobody receives a result.
Abandoned == [tag |-> "Abandoned", v |-> <<>>]

NoTxn == [owner |-> 0, writes |-> <<>>]

\* History records: by names the call that settled val for the key.
Settled(b, v, o) == [by |-> b, val |-> v, old |-> o]
Unknown == Settled("unknown", <<>>, <<>>)
Dirty == Settled("dirty", <<>>, <<>>)

Init ==
    /\ store = [k \in Keys |-> <<>>]
    /\ wtx = NoTxn
    /\ cache = [k \in Keys |-> <<>>]
    /\ pc = [p \in Procs |-> "idle"]
    /\ op = [p \in Procs |-> "none"]
    /\ key = [p \in Procs |-> 0]
    /\ val = [p \in Procs |-> <<>>]
    /\ idx = [p \in Procs |-> 0]
    /\ tmp = [p \in Procs |-> <<>>]
    /\ res = [p \in Procs |-> NoRes]
    /\ nOps = 0
    /\ faults = 0
    /\ expect = [k \in Keys |-> Settled("init", <<>>, <<>>)]
    /\ burst = [k \in Keys |-> "idle"]
    /\ note = [p \in Procs |-> Unknown]

(***************************************************************************)
(* The store (heed over LMDB) and the cache, as the facade uses them.      *)
(***************************************************************************)
\* db.write_txn(): LMDB grants the write transaction to one thread at a time.
WriteTxnUnguarded == TRUE
WriteTxnFree == wtx.owner = 0

\* database.put(&mut rw_tx, &key, chunk): staged in the transaction.
StagePut(w, k, c) == [w EXCEPT !.writes = Append(@, <<k, Encoded[c]>>)]

\* rw_tx.commit(): every staged put reaches the table, later puts of a key
\* over earlier ones.
RECURSIVE ApplyWrites(_, _)
ApplyWrites(st, writes) ==
    IF writes = <<>> THEN st
    ELSE ApplyWrites([st EXCEPT ![Head(writes)[1]] = <<Head(writes)[2]>>], Tail(writes))

\* What the commit of a write transaction leaves in the table.
Committed(st, w) == ApplyWrites(st, w.writes)

\* A put of insert_chunks_into_database fails: `?` returns, the transaction
\* is dropped without a commit and the table stays as it was.
CommitOnPutError(st, w) == Committed(st, w)
OnBatchPutError(st, w) == st

\* database.get(&ro_tx, key) of get_chunk_from_database, on the committed
\* table: <<chunk>>, or <<>> for a value that does not decode.
StoreHas(k) == store[k] # <<>>
StoreGet(k) == Decoded[store[k][1]]

\* cache.contains_key / cache.get / cache.insert
CacheContains(k) == cache[k] # <<>>
CacheGet(k) == cache[k]
CacheInsert(ch, k, c) == [ch EXCEPT ![k] = <<c>>]

MayFail == faults < MaxFaults

(***************************************************************************)
(* History of the calls, for the properties: which writes of a key ran     *)
(* side by side, and what a call that ran undisturbed left settled.        *)
(***************************************************************************)
IsWrite(o) == o \in {"insert_chunk", "update_chunk", "batch_insert"}
Running(q) == pc[q] \notin {"idle", "done", "panicked"}
KeysOf(v) == {CacheKey(v[i]) : i \in 1..Len(v)}
Writers(k) == {q \in Procs : Running(q) /\ IsWrite(op[q]) /\ k \in KeysOf(val[q])}
Readers(k) == {q \in Procs : Running(q) /\ ~IsWrite(op[q]) /\ key[q] = k}

\* The chunk of v that a key ends with: the last one carrying it.
LastFor(v, k) ==
    v[CHOOSE i \in 1..Len(v) :
        /\ CacheKey(v[i]) = k
        /\ \A j \in (i + 1)..Len(v) : CacheKey(v[j]) # k]

HistStart(p, o, k, v) ==
    /\ burst' = [kk \in Keys |->
          IF kk \notin KeysOf(v) THEN burst[kk]
          ELSE IF burst[kk] = "idle" THEN "single"
          ELSE IF /\ o = "update_chunk"
                  /\ burst[kk] \in {"single", "race"}
                  /\ \A q \in Writers(kk) : op[q] = "update_chunk"
               THEN "race"
          ELSE "mixed"]
    /\ expect' = [kk \in Keys |-> IF kk \in KeysOf(v) THEN Unknown ELSE expect[kk]]
    /\ note' = [q \in Procs |->
          IF q = p
          THEN IF IsWrite(o)
               THEN IF Len(v) = 1 /\ burst[k] = "idle" THEN expect[k] ELSE Unknown
               ELSE IF burst[k] = "idle" THEN expect[k] ELSE Dirty
          ELSE IF \E kk \in KeysOf(v) : q \in Readers(kk) THEN Dirty
          ELSE note[q]]

\* What a write that ran alone settles for key k.
SettledByWrite(p, k) ==
    IF op[p] = "insert_chunk" THEN Settled("insert", <<val[p][1]>>, <<>>)
    ELSE IF op[p] = "batch_insert" THEN Settled("batch", <<LastFor(val[p], k)>>, <<>>)
    ELSE IF note[p].by = "insert" THEN Settled("overwrite", <<val[p][1]>>, note[p].val)
    ELSE Settled("update", <<val[p][1]>>, <<>>)

HistFinish(p, r) ==
    /\ burst' = [kk \in Keys |->
          IF ~IsWrite(op[p]) \/ kk \notin KeysOf(val[p]) THEN burst[kk]
          ELSE IF Writers(kk) \ {p} = {} THEN "idle"
          ELSE IF r.tag = "Ok" THEN burst[kk]
          ELSE "mixed"]
    /\ expect' = [kk \in Keys |->
          IF IsWrite(op[p])
          THEN IF kk \notin KeysOf(val[p]) \/ Writers(kk) \ {p} # {} THEN expect[kk]
               ELSE IF r.tag # "Ok" \/ burst[kk] = "mixed" THEN Unknown
               ELSE IF burst[kk] = "race" THEN Settled("race", StoreGet(kk), <<>>)
               ELSE SettledByWrite(p, kk)
          ELSE IF op[p] = "get_chunk" /\ kk = key[p] /\ r.tag = "Ok" /\ note[p] # Dirty
               THEN Settled("get", r.v, <<>>)
          ELSE expect[kk]]
    /\ UNCHANGED note

HistSame == UNCHANGED <<expect, burst, note>>

(***************************************************************************)
(* Calls begin and end.                                                    *)
(***************************************************************************)
Free(q) == pc[q] \in {"idle", "done"}

\* A call is taken by the first free task (the tasks are interchangeable).
Start(p, o, k, v, at) ==
    /\ Free(p)
    /\ \A q \in Procs : q < p => ~Free(q)
    /\ nOps < MaxOps
    /\ nOps' = nOps + 1
    /\ op' = [op EXCEPT ![p] = o]
    /\ key' = [key EXCEPT ![p] = k]
    /\ val' = [val EXCEPT ![p] = v]
    /\ idx' = [idx EXCEPT ![p] = IF o = "batch_insert" THEN 1 ELSE 0]
    /\ tmp' = [tmp EXCEPT ![p] = <<>>]
    /\ res' = [res EXCEPT ![p] = NoRes]
    /\ pc' = [pc EXCEPT ![p] = at]
    /\ HistStart(p, o, k, v)

\* What becomes of the result r: an abandoned call has nobody to return to
\* (the JoinHandle was dropped with the future, and nothing unwraps r).
Outcome(p, r) == IF res[p] = Abandoned THEN Abandoned ELSE r

\* The call returns r; its locals are dropped (idx stays, for the record).
Finish(p, r) ==
    /\ pc' = [pc EXCEPT ![p] = IF Outcome(p, r).tag = "Panic" THEN "panicked" ELSE "done"]
    /\ res' = [res EXCEPT ![p] = Outcome(p, r)]
    /\ val' = [val EXCEPT ![p] = <<>>]
    /\ tmp' = [tmp EXCEPT ![p] = <<>>]
    /\ HistFinish(p, Outcome(p, r))

(***************************************************************************)
(* insert_chunk and update_chunk.                                          *)
(***************************************************************************)
\* An insert_chunk that would fill the cache before its store write.
InsertChunkCachesFirst(p) ==
    \E c \in Chunks :
        /\ Start(p, "insert_chunk", CacheKey(c), <<c>>, "w_begin")
        /\ cache' = CacheInsert(cache, CacheKey(c), c)
        /\ UNCHANGED <<store, wtx, faults>>

\* insert_chunk, lines 166-174: the key, then the store write is dispatched.
InsertChunkCall(p) ==
    \E c \in Chunks :
        /\ Start(p, "insert_chunk", CacheKey(c), <<c>>, "w_begin")
        /\ UNCHANGED <<store, wtx, cache, faults>>

\* update_chunk, lines 294-302.
UpdateChunkCall(p) ==
    \E c \in Chunks :
        /\ Start(p, "update_chunk", CacheKey(c), <<c>>, "w_begin")
        /\ UNCHANGED <<store, wtx, cache, faults>>

\* insert_chunk_into_database, line 64: the write transaction is opened; the
\* call waits while another write transaction is open.
WriteTxnBegin(p) ==
    /\ pc[p] = "w_begin"
    /\ WriteTxnFree
    /\ wtx' = [owner |-> p, writes |-> <<>>]
    /\ pc' = [pc EXCEPT ![p] = "w_txn"]
    /\ UNCHANGED <<store, cache, op, key, val, idx, tmp, res, nOps, faults>>
    /\ HistSame

\* insert_chunk_into_database, lines 71-85: put, then commit whatever put
\* returned; the commit's error is reported first, else the put's.
PutAndCommit(p) ==
    /\ pc[p] = "w_txn"
    /\ wtx' = NoTxn
    /\ \E putOk \in BOOLEAN, commitOk \in BOOLEAN :
        /\ (putOk /\ commitOk) \/ MayFail
        /\ faults' = IF putOk /\ commitOk THEN faults ELSE faults + 1
        /\ store' = IF commitOk /\ putOk
                    THEN Committed(store, StagePut(wtx, StoreKey(val[p][1]), val[p][1]))
                    ELSE store
        /\ IF ~commitOk
           THEN Finish(p, Err("Unable to commit changes to database"))
           ELSE IF ~putOk
           THEN Finish(p, Err("Failed to insert or update chunk"))
           ELSE IF res[p] = Abandoned
           THEN Finish(p, Ok(<<>>))
           ELSE /\ pc' = [pc EXCEPT ![p] = "w_cache"]
                /\ UNCHANGED <<val, tmp, res>>
                /\ HistSame
    /\ UNCHANGED <<cache, op, key, idx, nOps>>

\* insert_chunk lines 178-180, update_chunk lines 304-306.
CacheWritten(p) ==
    /\ pc[p] = "w_cache"
    /\ cache' = CacheInsert(cache, key[p], val[p][1])
    /\ Finish(p, Ok(<<>>))
    /\ UNCHANGED <<store, wtx, op, key, idx, nOps, faults>>

(***************************************************************************)
(* get_chunk and chunk_exists.                                             *)
(***************************************************************************)
\* A get_chunk that would go to the store whatever the cache holds.
GetChunkSkipsCache(p) ==
    \E t \in Triples :
        /\ Start(p, "get_chunk", LookupKey(t), <<>>, "g_db")
        /\ UNCHANGED <<store, wtx, cache, faults>>

\* get_chunk, lines 210-214: the key, then cache.contains_key.
GetChunkCall(p) ==
    \E t \in Triples :
        /\ Start(p, "get_chunk", LookupKey(t), <<>>,
                 IF CacheContains(LookupKey(t)) THEN "g_cget" ELSE "g_db")
        /\ UNCHANGED <<store, wtx, cache, faults>>

\* get_chunk, line 215: Ok(self.cache.get(&key).await).
GetFromCache(p) ==
    /\ pc[p] = "g_cget"
    /\ Finish(p, Ok(CacheGet(key[p])))
    /\ UNCHANGED <<store, wtx, cache, op, key, idx, nOps, faults>>

\* A get_chunk whose store miss would leave an entry in the cache.
GetFromStoreMissFills(p) ==
    /\ pc[p] = "g_db"
    /\ ~StoreHas(key[p])
    /\ cache' = CacheInsert(cache, key[p], CHOOSE c \in Chunks : TRUE)
    /\ Finish(p, Ok(<<>>))
    /\ UNCHANGED <<store, wtx, op, key, idx, nOps, faults>>

\* get_chunk_from_database (lines 48-59) as dispatched by get_chunk, line 218.
GetFromStore(p) ==
    /\ pc[p] = "g_db"
    /\ \/ /\ StoreHas(key[p])
          /\ StoreGet(key[p]) # <<>>
          /\ tmp' = [tmp EXCEPT ![p] = StoreGet(key[p])]
          /\ pc' = [pc EXCEPT ![p] = "g_ins"]
          /\ UNCHANGED <<val, res, faults>>
          /\ HistSame
       \/ /\ ~StoreHas(key[p])
          /\ Finish(p, Ok(<<>>))
          /\ UNCHANGED faults
       \/ /\ MayFail
          /\ faults' = faults + 1
          /\ Finish(p, Err("Failed to get chunk"))
    /\ UNCHANGED <<store, wtx, cache, op, key, idx, nOps>>

\* get_chunk, lines 222-223.
GetFillCache(p) ==
    /\ pc[p] = "g_ins"
    /\ cache' = CacheInsert(cache, key[p], tmp[p][1])
    /\ Finish(p, Ok(tmp[p]))
    /\ UNCHANGED <<store, wtx, op, key, idx, nOps, faults>>

\* chunk_exists, lines 251-256: the key, then cache.contains_key.
ChunkExistsCall(p) ==
    \E t \in Triples :
        /\ Start(p, "chunk_exists", LookupKey(t), <<>>,
                 IF CacheContains(LookupKey(t)) THEN "e_hit" ELSE "e_db")
        /\ UNCHANGED <<store, wtx, cache, faults>>

\* chunk_exists, line 256: a cache hit is Ok(true).
ExistsHit(p) ==
    /\ pc[p] = "e_hit"
    /\ Finish(p, Ok(<<TRUE>>))
    /\ UNCHANGED <<store, wtx, cache, op, key, idx, nOps, faults>>

\* chunk_exists, lines 259-272: the store lookup and its match.
ExistsFromStore(p) ==
    /\ pc[p] = "e_db"
    /\ \/ /\ StoreHas(key[p])
          /\ StoreGet(key[p]) # <<>>
          /\ tmp' = [tmp EXCEPT ![p] = StoreGet(key[p])]
          /\ pc' = [pc EXCEPT ![p] = "e_ins"]
          /\ UNCHANGED <<val, res, faults>>
          /\ HistSame
       \/ /\ ~StoreHas(key[p])
          /\ Finish(p, Ok(<<FALSE>>))
          /\ UNCHANGED faults
       \/ /\ MayFail
          /\ faults' = faults + 1
          /\ Finish(p, Err("Failed to get chunk"))
    /\ UNCHANGED <<store, wtx, cache, op, key, idx, nOps>>

\* chunk_exists, lines 266-269.
ExistsFillCache(p) ==
    /\ pc[p] = "e_ins"
    /\ cache' = CacheInsert(cache, key[p], tmp[p][1])
    /\ Finish(p, Ok(<<TRUE>>))
    /\ UNCHANGED <<store, wtx, op, key, idx, nOps, faults>>

(***************************************************************************)
(* batch_insert and load_into_cache.                                       *)
(***************************************************************************)
\* batch_insert, lines 329-340: the keys, then the loop over (key, chunk).
BatchInsertCall(p) ==
    \E vs \in Batches :
        /\ Start(p, "batch_insert", IF vs = <<>> THEN 0 ELSE CacheKey(vs[1]), vs,
                 IF vs = <<>> THEN "b_begin" ELSE "b_cins")
        /\ UNCHANGED <<store, wtx, cache, faults>>

\* The loop moves to its next pair, or leaves for the store write (line 346).
NextPair(p) ==
    IF idx[p] < Len(val[p])
    THEN /\ idx' = [idx EXCEPT ![p] = @ + 1]
         /\ key' = [key EXCEPT ![p] = CacheKey(val[p][idx[p] + 1])]
         /\ pc' = [pc EXCEPT ![p] = "b_cins"]
    ELSE /\ idx' = [idx EXCEPT ![p] = 1]
         /\ UNCHANGED key
         /\ pc' = [pc EXCEPT ![p] = "b_begin"]

\* batch_insert, line 341: self.cache.insert(key, chunk.clone()).await.
BatchCacheInsert(p) ==
    /\ pc[p] = "b_cins"
    /\ cache' = CacheInsert(cache, key[p], val[p][idx[p]])
    /\ pc' = [pc EXCEPT ![p] = "b_load"]
    /\ UNCHANGED <<store, wtx, op, key, val, idx, tmp, res, nOps, faults>>
    /\ HistSame

\* load_into_cache, lines 119-123: the spawned task checks the cache.
LoadCheckCache(p) ==
    /\ pc[p] = "b_load"
    /\ IF CacheContains(key[p])
       THEN NextPair(p)
       ELSE /\ pc' = [pc EXCEPT ![p] = "l_db"]
            /\ UNCHANGED <<key, idx>>
    /\ UNCHANGED <<store, wtx, cache, op, val, tmp, res, nOps, faults>>
    /\ HistSame

\* load_into_cache, lines 125-142: the store lookup; a miss and an error are
\* logged only.
LoadFromStore(p) ==
    /\ pc[p] = "l_db"
    /\ \/ /\ StoreHas(key[p])
          /\ StoreGet(key[p]) # <<>>
          /\ tmp' = [tmp EXCEPT ![p] = StoreGet(key[p])]
          /\ pc' = [pc EXCEPT ![p] = "l_ins"]
          /\ UNCHANGED <<key, idx, faults>>
       \/ /\ ~StoreHas(key[p])
          /\ NextPair(p)
          /\ UNCHANGED <<tmp, faults>>
       \/ /\ MayFail
          /\ faults' = faults + 1
          /\ NextPair(p)
          /\ UNCHANGED tmp
    /\ UNCHANGED <<store, wtx, cache, op, val, res, nOps>>
    /\ HistSame

\* load_into_cache, line 131: cache.insert(key, chunk).await.
LoadFillCache(p) ==
    /\ pc[p] = "l_ins"
    /\ cache' = CacheInsert(cache, key[p], tmp[p][1])
    /\ tmp' = [tmp EXCEPT ![p] = <<>>]
    /\ NextPair(p)
    /\ UNCHANGED <<store, wtx, op, val, res, nOps, faults>>
    /\ HistSame

\* insert_chunks_into_database, line 92: the write transaction is opened.
BatchTxnBegin(p) ==
    /\ pc[p] = "b_begin"
    /\ WriteTxnFree
    /\ wtx' = [owner |-> p, writes |-> <<>>]
    /\ pc' = [pc EXCEPT ![p] = "b_txn"]
    /\ UNCHANGED <<store, cache, op, key, val, idx, tmp, res, nOps, faults>>
    /\ HistSame

\* insert_chunks_into_database, lines 99-106: one put of the loop; a failed
\* put returns at once and the dropped transaction aborts.
BatchPut(p) ==
    /\ pc[p] = "b_txn"
    /\ idx[p] <= Len(val[p])
    /\ \/ /\ wtx' = StagePut(wtx, StoreKey(val[p][idx[p]]), val[p][idx[p]])
          /\ idx' = [idx EXCEPT ![p] = @ + 1]
          /\ UNCHANGED <<store, pc, val, tmp, res, faults>>
          /\ HistSame
       \/ /\ MayFail
          /\ faults' = faults + 1
          /\ wtx' = NoTxn
          /\ store' = OnBatchPutError(store, wtx)
          /\ Finish(p, Err("Failed to insert or update chunk"))
          /\ UNCHANGED idx
    /\ UNCHANGED <<cache, op, key, nOps>>

\* insert_chunks_into_database, lines 109-112: the commit.
BatchCommit(p) ==
    /\ pc[p] = "b_txn"
    /\ idx[p] > Len(val[p])
    /\ wtx' = NoTxn
    /\ \/ /\ store' = Committed(store, wtx)
          /\ UNCHANGED faults
          /\ Finish(p, Ok(<<>>))
       \/ /\ MayFail
          /\ faults' = faults + 1
          /\ UNCHANGED store
          /\ Finish(p, Err("Unable to commit changes to database"))
    /\ UNCHANGED <<cache, op, key, idx, nOps>>

(***************************************************************************)
(* The blocking pool and the cache's eviction.                             *)
(***************************************************************************)
\* What each call site makes of a JoinError of its dispatched closure:
\* unwrap() at lines 176, 220 and 348, `?` at lines 259 and 302; in
\* load_into_cache the unwrap of line 128 kills the spawned task, whose
\* JoinError line 144 returns with `?`, and line 342 passes on.
JoinErrorOf(o, at) ==
    IF at = "l_db" THEN Err("JoinError")
    ELSE IF o \in {"update_chunk", "chunk_exists"} THEN Err("JoinError")
    ELSE Panic("unwrap on JoinError")

OnJoinError(p) == JoinErrorOf(op[p], pc[p])

\* spawn_blocking's closure panics or is cancelled before it touched the store.
DispatchFail(p) ==
    /\ pc[p] \in {"w_begin", "g_db", "e_db", "l_db", "b_begin"}
    /\ MayFail
    /\ faults' = faults + 1
    /\ Finish(p, OnJoinError(p))
    /\ UNCHANGED <<store, wtx, cache, op, key, idx, nOps>>

\* get_chunk_from_database, lines 50-54: read_txn() or open_database fails and
\* its unwrap() panics inside the closure, so the JoinHandle yields a JoinError.
ReadTxnFail(p) ==
    /\ pc[p] \in {"g_db", "e_db", "l_db"}
    /\ MayFail
    /\ faults' = faults + 1
    /\ Finish(p, OnJoinError(p))
    /\ UNCHANGED <<store, wtx, cache, op, key, idx, nOps>>

\* A cancellation that would stop the closure where it stands, leaving the
\* puts made so far in the table.
CancelTearsWrite(p) ==
    /\ pc[p] \in {"w_begin", "w_txn", "b_begin", "b_txn"}
    /\ res[p] = NoRes
    /\ res' = [res EXCEPT ![p] = Abandoned]
    /\ store' = IF wtx.owner = p THEN Committed(store, wtx) ELSE store
    /\ wtx' = IF wtx.owner = p THEN [wtx EXCEPT !.writes = <<>>] ELSE wtx
    /\ UNCHANGED <<cache, pc, op, key, val, idx, tmp, nOps, faults>>
    /\ HistSame

\* The caller drops the future of a write while it awaits the JoinHandle of
\* its store write (lines 174-176, 302, 346-348): the closure handed to
\* spawn_blocking is detached and keeps running, the rest of the call (the
\* cache insert of lines 179 and 305) never runs.
Cancel(p) ==
    /\ pc[p] \in {"w_begin", "w_txn", "b_begin", "b_txn"}
    /\ res[p] = NoRes
    /\ res' = [res EXCEPT ![p] = Abandoned]
    /\ UNCHANGED <<store, wtx, cache, pc, op, key, val, idx, tmp, nOps, faults>>
    /\ HistSame

\* The cache drops an entry (capacity or time to live), at any moment.
Evict(k) ==
    /\ CacheContains(k)
    /\ cache' = [cache EXCEPT ![k] = <<>>]
    /\ UNCHANGED <<store, wtx, pc, op, key, val, idx, tmp, res, nOps, faults>>
    /\ HistSame

Next ==
    \/ \E p \in Procs : InsertChunkCall(p)
    \/ \E p \in Procs : UpdateChunkCall(p)
    \/ \E p \in Procs : WriteTxnBegin(p)
    \/ \E p \in Procs : PutAndCommit(p)
    \/ \E p \in Procs : CacheWritten(p)
    \/ \E p \in Procs : GetChunkCall(p)
    \/ \E p \in Procs : GetFromCache(p)
    \/ \E p \in Procs : GetFromStore(p)
    \/ \E p \in Procs : GetFillCache(p)
    \/ \E p \in Procs : ChunkExistsCall(p)
    \/ \E p \in Procs : ExistsHit(p)
    \/ \E p \in Procs : ExistsFromStore(p)
    \/ \E p \in Procs : ExistsFillCache(p)
    \/ \E p \in Procs : BatchInsertCall(p)
    \/ \E p \in Procs : BatchCacheInsert(p)
    \/ \E p \in Procs : LoadCheckCache(p)
    \/ \E p \in Procs : LoadFromStore(p)
    \/ \E p \in Procs : LoadFillCache(p)
    \/ \E p \in Procs : BatchTxnBegin(p)
    \/ \E p \in Procs : BatchPut(p)
    \/ \E p \in Procs : BatchCommit(p)
    \/ \E p \in Procs : DispatchFail(p)
    \/ \E p \in Procs : ReadTxnFail(p)
    \/ \E p \in Procs : Cancel(p)
    \/ \E k \in Keys : Evict(k)

Spec == Init /\ [][Next]_vars

\* The blocking pool runs a closure it was handed until the closure returns,
\* and the store grants the write transaction to a waiting closure once it
\* is free.
ClosureRuns(p) ==
    /\ WF_vars(WriteTxnBegin(p))
    /\ WF_vars(PutAndCommit(p))
    /\ WF_vars(BatchTxnBegin(p))
    /\ WF_vars(BatchPut(p))
    /\ WF_vars(BatchCommit(p))

\* The writes alone, with their cancellation and their failures.  The reads
\* and the cache's eviction (and with it the store lookup of load_into_cache,
\* which runs only for an evicted key) open no write transaction and never
\* change the table, so they have no part in how a dispatched write runs on.
WriteNext ==
    \/ \E p \in Procs : InsertChunkCall(p)
    \/ \E p \in Procs : UpdateChunkCall(p)
    \/ \E p \in Procs : WriteTxnBegin(p)
    \/ \E p \in Procs : PutAndCommit(p)
    \/ \E p \in Procs : CacheWritten(p)
    \/ \E p \in Procs : BatchInsertCall(p)
    \/ \E p \in Procs : BatchCacheInsert(p)
    \/ \E p \in Procs : LoadCheckCache(p)
    \/ \E p \in Procs : BatchTxnBegin(p)
    \/ \E p \in Procs : BatchPut(p)
    \/ \E p \in Procs : BatchCommit(p)
    \/ \E p \in Procs : DispatchFail(p)
    \/ \E p \in Procs : Cancel(p)

WriteSpec == Init /\ [][WriteNext]_vars /\ \A p \in Procs : ClosureRuns(p)

(***************************************************************************)
(* Properties.                                                             *)
(*                                                                         *)
(* A get_chunk "after" a call means: the call ran with no other write of   *)
(* the key beside it, it returned, and no write of the key began before    *)
(* the get_chunk returned.  note[p] holds what such a call settled for the *)
(* key when the get_chunk of task p began.                                 *)
(***************************************************************************)
GotOk(p) == pc[p] = "done" /\ op[p] = "get_chunk" /\ res[p].tag = "Ok"

\* C1: write-then-read.  After insert_chunk(c) returned Ok, a get_chunk of
\* c's triple with no other write of the key in between returns Some(c).
C1_WriteThenRead ==
    \A p \in Procs : GotOk(p) /\ note[p].by = "insert" => res[p].v = note[p].val

\* C2: overwrite.  After insert_chunk(c) and then update_chunk(c2) of the same
\* key both returned Ok, get_chunk returns Some(c2): the whole of c2, neither
\* c nor anything else.
C2_Overwrite ==
    \A p \in Procs : GotOk(p) /\ note[p].by = "overwrite" => res[p].v = note[p].val

\* C3: existence.  chunk_exists returns true only if a write of the triple
\* has committed, and false only if no write of the triple had returned Ok
\* when the call began.
C3_ExistsIffWritten ==
    \A p \in Procs :
        pc[p] = "done" /\ op[p] = "chunk_exists" /\ res[p].tag = "Ok" =>
            /\ res[p].v[1] => StoreHas(key[p])
            /\ ~res[p].v[1] =>
                   note[p].by \notin {"insert", "update", "overwrite", "batch", "race"}

\* C4: after batch_insert(values) returned Ok, get_chunk of a triple of
\* values returns the last chunk of values carrying that triple, whatever the
\* cache evicted while the batch ran.
C4_BatchReadable ==
    \A p \in Procs : GotOk(p) /\ note[p].by = "batch" => res[p].v = note[p].val

\* What the table holds once every put of the batch v has reached it.
AllPuts(st, v) == ApplyWrites(st, [i \in 1..Len(v) |-> <<StoreKey(v[i]), Encoded[v[i]]>>])

InBatch(p) == op[p] = "batch_insert" /\ Running(p)
Acts(p) == pc'[p] # pc[p] \/ idx'[p] # idx[p]

\* C5: batch atomicity in the store.  A step of a running batch_insert leaves
\* the committed table as it was, or it is the step that returns Ok and puts
\* every entry of the batch into the table at once; so no reader sees a part
\* of a batch, and a batch whose put or commit fails leaves none of its
\* entries in the table.
C5_BatchAtomic ==
    [][\A p \in Procs :
          InBatch(p) /\ Acts(p) /\ store' # store =>
              /\ res'[p].tag \in {"Ok", "Abandoned"}
              /\ store' = AllPuts(store, val[p])]_vars

\* C5, witness: a batch whose second put failed has returned Err, its first
\* put had been staged, and the table holds no entry.
C5_Witness ==
    \E p \in Procs :
        /\ pc[p] = "done" /\ op[p] = "batch_insert" /\ idx[p] = 2
        /\ res[p] = Err("Failed to insert or update chunk")
        /\ \A k \in Keys : ~StoreHas(k)

\* C6: cache transparency.  Two get_chunk calls of a key with no write of the
\* key between them return the same value, whenever the cache evicts.
C6_CacheTransparency ==
    \A p \in Procs : GotOk(p) /\ note[p].by = "get" => res[p].v = note[p].val

\* C7: cache coherence.  Every cache entry equals the committed value of its
\* key in the table.
C7_CacheCoherence ==
    \A k \in Keys : CacheContains(k) => StoreHas(k) /\ StoreGet(k) = cache[k]

\* C8: last commit wins.  After update_chunk calls of one key that ran side by
\* side have all returned Ok, get_chunk returns the value committed last.
C8_LastCommitWins ==
    \A p \in Procs : GotOk(p) /\ note[p].by = "race" => res[p].v = note[p].val

InWriteTxn(p) == pc[p] \in {"w_txn", "b_txn"}

\* C9: single writer.  At most one write transaction is open at any time, and
\* it is the one the store holds: a second write waits at write_txn().
C9_SingleWriter ==
    \A p, q \in Procs :
        InWriteTxn(p) /\ InWriteTxn(q) => p = q /\ wtx.owner = p

\* C9, witness: one task is inside its write transaction while another has
\* dispatched a write and waits for the transaction.
C9_Witness ==
    \E p, q \in Procs :
        /\ p # q
        /\ InWriteTxn(p)
        /\ pc[q] \in {"w_begin", "b_begin"}

\* C10: a failed dispatch of the blocking closure is returned as Err; no
\* facade call panics on it.
C10_DispatchFailureReported ==
    \A p \in Procs : pc[p] # "panicked"

(***************************************************************************)
(* Failures of the lookup, cancellation, cache hits.                       *)
(***************************************************************************)
\* The step of task p in which the store lookup of a cache miss fails: the
\* read transaction cannot be opened, or database.get returns an error (the
\* store's, or the codec's for bytes that do not decode).
LookupFails(p) ==
    /\ pc[p] \in {"g_db", "e_db"}
    /\ faults' = faults + 1
    /\ GetFromStore(p) \/ ExistsFromStore(p) \/ ReadTxnFail(p)

\* The step of task p in which its cache miss is answered with absence.
AnswersAbsent(p) ==
    /\ pc[p] \in {"g_db", "e_db"}
    /\ pc'[p] = "done"
    /\ res'[p] \in {Ok(<<>>), Ok(<<FALSE>>)}

\* C11: on a cache miss, a store or codec failure of the lookup makes
\* get_chunk and chunk_exists return Err and leaves the cache unchanged; they
\* answer Ok(None) / Ok(false) only when the table has no entry for the key.
C11_LookupFailureIsErr ==
    [][\A p \in Procs :
          /\ LookupFails(p) => res'[p].tag = "Err" /\ cache' = cache
          /\ AnswersAbsent(p) => ~StoreHas(key[p])]_vars

IsAbandoned(p) == res[p] = Abandoned /\ Running(p)

\* A step of an abandoned write leaves the table as it was or puts the whole
\* write into it, and it leaves the transaction only by closing it.
AbandonedStep(p) ==
    IsAbandoned(p) /\ Acts(p) =>
        /\ store' = store \/ store' = AllPuts(store, val[p])
        /\ InWriteTxn(p) /\ pc'[p] # pc[p] => wtx' = NoTxn /\ pc'[p] = "done"

\* C12: cancellation.  Dropping the future of insert_chunk, update_chunk or
\* batch_insert after its store write was dispatched touches neither the
\* table nor the transaction; the dispatched write then runs until it has
\* committed or aborted, and the table never holds a part of it.
C12_CancelledWriteCompletes ==
    /\ [][\A p \in Procs :
            /\ Cancel(p) => store' = store /\ wtx' = wtx /\ pc' = pc
            /\ AbandonedStep(p)]_vars
    /\ \A p \in Procs : IsAbandoned(p) ~> (pc[p] = "done" /\ wtx.owner # p)

\* C12, witness: an abandoned batch_insert of two chunks has ended with its
\* transaction committed: the table holds the batch, nobody got a result.
C12_Witness ==
    \E p \in Procs :
        /\ pc[p] = "done" /\ op[p] = "batch_insert" /\ res[p] = Abandoned
        /\ idx[p] = 3
        /\ StoreHas(key[p])
        /\ wtx = NoTxn

\* The steps in which task p has the store look a key up (a read transaction).
StoreLookup(p) ==
    GetFromStore(p) \/ ExistsFromStore(p) \/ LoadFromStore(p) \/ ReadTxnFail(p)

AfterHit(p) == pc[p] \in {"g_cget", "e_hit"}

\* C13: a get_chunk or chunk_exists that finds the key in the cache at its
\* presence check returns in its next step, which is no store lookup and
\* leaves the table and the write transaction alone.
C13_HitWithoutStore ==
    [][\A p \in Procs :
          /\ (GetChunkCall(p) \/ ChunkExistsCall(p)) /\ CacheContains(key'[p])
                 => AfterHit(p)'
          /\ AfterHit(p) /\ pc'[p] # pc[p] =>
                 /\ pc'[p] = "done" /\ res'[p].tag = "Ok"
                 /\ ~StoreLookup(p)
                 /\ UNCHANGED <<store, wtx>>]_vars

\* C13, witness: get_chunk has returned Some(c) for a key the table holds no
\* entry of, so the cache alone answered it.
C13_Witness ==
    \E p \in Procs :
        /\ GotOk(p) /\ res[p].v # <<>>
        /\ ~StoreHas(key[p])

(***************************************************************************)
(* insert_chunk against update_chunk.                                      *)
(***************************************************************************)
SingleWrites == {"insert_chunk", "update_chunk"}
OtherWrite(o) == IF o = "insert_chunk" THEN "update_chunk" ELSE "insert_chunk"

\* The step of task p is one that the single write o takes from this state
\* with the chunk of p: the store write and the cache insert, or the failed
\* dispatch as o's call site handles it.
WriteStepOf(o, p) ==
    \/ WriteTxnBegin(p)
    \/ PutAndCommit(p)
    \/ CacheWritten(p)
    \/ Cancel(p)
    \/ /\ pc[p] = "w_begin"
       /\ faults' = faults + 1
       /\ res'[p] = IF res[p] = Abandoned THEN Abandoned ELSE JoinErrorOf(o, pc[p])
       /\ pc'[p] = IF res'[p].tag = "Panic" THEN "panicked" ELSE "done"
       /\ UNCHANGED <<store, wtx, cache>>

\* C14: update_chunk and insert_chunk have the same mechanics.  Every step a
\* call of one of them takes (on success, on a failed put or commit, on a
\* failed dispatch) is a step the other takes from the same state with the
\* same chunk: same table, same cache, same result.
C14_UpdateSameAsInsert ==
    [][\A p \in Procs :
          op[p] \in SingleWrites /\ Running(p) /\ (pc'[p] # pc[p] \/ res'[p] # res[p])
              => WriteStepOf(OtherWrite(op[p]), p)]_vars

(***************************************************************************)
(* The states of a key: absent, cached-only, persisted, persisted+cached.  *)
(***************************************************************************)
CachedOnly(k) == CacheContains(k) /\ ~StoreHas(k)
Quiet == \A p \in Procs : ~Running(p)

\* C15: per-key state machine.  A key with a table entry keeps one (it never
\* goes back to absent or cached-only), and cached-only is transient: it is
\* met only while a call is still running, so once every call has ended no
\* key is left with a cache entry and no table entry.
C15_KeyStateMachine ==
    [][\A k \in Keys :
          /\ StoreHas(k) => StoreHas(k)'
          /\ Quiet' => ~CachedOnly(k)']_vars

(***************************************************************************)
(* Key derivation across the call sites.                                   *)
(***************************************************************************)
TripleOf(c) == <<c.dimension[1], c.x_pos, c.z_pos>>

\* Triples over both dimensions, with negative and multi-byte coordinates.
Coords == {-300, -1, 0, 1, 2, 70000}
AnyTriples == {<<d, x, z>> : d \in DimNames, x \in Coords, z \in Coords}

\* For one triple the three derivations give one key.
KeysAgree ==
    \A t \in AnyTriples :
        LET c == Chunk(t[1], t[2], t[3], 1)
        IN  LookupKeyOf(t) = CacheKeyOf(c) /\ LookupKeyOf(t) = StoreKeyOf(c)

\* C16: uniform key derivation.  The cache key of the writers, the table key
\* of the store helpers and the lookup key of the readers are equal for one
\* triple; so every cache entry and every table entry lies under the key a
\* reader derives from the entry's own (dimension, x, z).
C16_UniformKeys ==
    /\ KeysAgree
    /\ \A k \in Keys :
          /\ CacheContains(k) => LookupKey(TripleOf(cache[k][1])) = k
          /\ StoreHas(k) => LookupKey(TripleOf(StoreGet(k)[1])) = k
    /\ \A p \in Procs :
          pc[p] \in {"w_begin", "w_txn", "w_cache"} =>
              key[p] = StoreKey(val[p][1]) /\ key[p] = LookupKey(TripleOf(val[p][1]))

\* C16, witness: a chunk written under the writers' keys is in the cache and
\* in the table, and a get_chunk of its triple has found it.
C16_Witness ==
    \E p \in Procs :
        /\ GotOk(p) /\ res[p].v # <<>>
        /\ key[p] = LookupKey(TripleOf(res[p].v[1]))
        /\ CacheContains(key[p]) /\ StoreHas(key[p])

(***************************************************************************)
(* The codec.                                                              *)
(***************************************************************************)
\* Chunk values over both dimensions and none, with coordinates whose varint
\* is a single byte.
CodecCoords == {-125, -1, 0, 1, 125}
AnyChunks ==
    {[dimension |-> d, x_pos |-> x, z_pos |-> z, payload |-> pl] :
        d \in {<<>>} \cup {<<n>> : n \in DimNames},
        x \in CodecCoords, z \in CodecCoords, pl \in Payloads}

RoundTrip == \A c \in AnyChunks : bytes_decode(bytes_encode(c)) = <<c>>

StoreReadDone(p) == pc[p] \in {"g_ins", "e_ins", "l_ins"}

\* C17: codec round-trip.  Decoding the encoding of a chunk gives the chunk;
\* so every table entry decodes, to a chunk whose encoding is the entry, and
\* every store lookup that found an entry holds a chunk that was written.
C17_CodecRoundTrip ==
    /\ RoundTrip
    /\ \A k \in Keys :
          StoreHas(k) =>
              /\ bytes_decode(store[k][1]) # <<>>
              /\ bytes_encode(bytes_decode(store[k][1])[1]) = store[k][1]
    /\ \A p \in Procs :
          StoreReadDone(p) => tmp[p] # <<>> /\ tmp[p][1] \in Chunks

\* C17, witness: get_chunk has read from the table the very chunk whose
\* encoding the table holds.
C17_Witness ==
    \E p \in Procs :
        /\ pc[p] = "g_ins"
        /\ tmp[p] # <<>>
        /\ StoreHas(key[p])
        /\ bytes_encode(tmp[p][1]) = store[key[p]][1]

(***************************************************************************)
(* One writer and its readers.                                             *)
(***************************************************************************)
\* The one writer of key k wrote it with insert_chunk and then update_chunk,
\* both Ok and neither beside another write; no write of k has begun since.
\* Reads of k may have run at any time.
WrittenBySingleWriter(k) == expect[k].by = "overwrite"

\* C18: with a single writer of a key using insert_chunk and update_chunk and
\* reads of the key running alongside, once no call is running the cache
\* entry of the key, if present, is the value the table holds (the writer's
\* last): no reader leaves an older value behind.
C18_SingleWriterCoherent ==
    \A k \in Keys :
        Quiet /\ WrittenBySingleWriter(k) /\ CacheContains(k) =>
            cache[k] = StoreGet(k) /\ cache[k] = expect[k].val

(***************************************************************************)
(* Order of the store write and the cache insert in single writes.         *)
(***************************************************************************)
\* C19: store before cache on single writes.  A step of insert_chunk or
\* update_chunk changes the cache only as its last step, which it reaches
\* only by the step that commits its put; a step in which the put or the
\* commit fails ends the call with Err (nothing, if the call was abandoned)
\* and leaves the table and the cache as they were.
C19_StoreBeforeCache ==
    [][\A p \in Procs :
          op'[p] \in SingleWrites /\ pc'[p] # pc[p] =>
              /\ cache' # cache => pc[p] = "w_cache" /\ res'[p] = Ok(<<>>)
              /\ pc'[p] = "w_cache" =>
                     pc[p] = "w_txn" /\ store' = AllPuts(store, val[p])
              /\ pc[p] = "w_txn" /\ pc'[p] # "w_cache" /\ res[p] # Abandoned =>
                     res'[p].tag = "Err"
              /\ res'[p].tag = "Err" => store' = store /\ cache' = cache]_vars

\* C19, witness: an update_chunk whose commit failed has returned Err, and
\* the table and the cache still hold the other chunk, written before.
C19_Witness ==
    \E p \in Procs :
        /\ pc[p] = "done" /\ op[p] = "update_chunk"
        /\ res[p] = Err("Unable to commit changes to database")
        /\ StoreHas(key[p]) /\ CacheContains(key[p])
        /\ cache[key[p]] = StoreGet(key[p])

(***************************************************************************)
(* Effects of the reads.                                                   *)
(***************************************************************************)
\* Task p is inside get_chunk, chunk_exists or load_into_cache.
Reading(p) ==
    /\ Running(p)
    /\ op[p] \in {"get_chunk", "chunk_exists"} \/ pc[p] \in {"b_load", "l_db", "l_ins"}

\* The store lookup of task p runs without error and the key is in neither
\* the cache nor the table.
MissInBoth(p) ==
    /\ pc[p] \in {"g_db", "e_db", "l_db"}
    /\ pc'[p] # pc[p]
    /\ faults' = faults
    /\ ~CacheContains(key[p]) /\ ~StoreHas(key[p])

=============================================================================
